---------------------------- MODULE Spec2Model ----------------------------
(* The upload -> validate -> read -> process -> preview -> download        *)
(* pipeline of the ImageUploader component                                 *)
(* (src/src/components/image-uploader.tsx).                                *)
(*                                                                         *)
(* Every event-loop task is one action: a handler invocation               *)
(* (validateAndProcessFile, clearImage, handleDownload), a FileReader      *)
(* callback, a progress callback of removeBackground, the continuation of  *)
(* processImage after its await, and the unmount cleanup.  The React state *)
(* variables hold the value last passed to their setter.  The handlers are *)
(* modelled as entry points callable whenever the component is mounted.    *)
EXTENDS Integers, Sequences, FiniteSets, TLC

(* ---------------------------------------------------------------------- *)
(* Bounds                                                                  *)
(* ---------------------------------------------------------------------- *)

\* number of accepted submissions explored
MaxSubmits == 2

(* ---------------------------------------------------------------------- *)
(* Program constants and input domains                                     *)
(* ---------------------------------------------------------------------- *)

ALLOWED_FILE_TYPES == {"image/png", "image/jpeg", "image/webp"}

\* 5 * 1024 * 1024
MAX_FILE_SIZE == 5242880

\* candidate File objects: name (as a sequence of characters), declared
\* MIME type and byte size
Files ==
  << [name |-> <<"a", ".", "p", "n", "g">>,
      type |-> "image/webp", size |-> 2097152],
     [name |-> <<"b", ".", "c", ".", "j", "p", "g">>,
      type |-> "image/jpeg", size |-> 5242880],
     [name |-> <<"h", ".", "p", "n", "g">>,
      type |-> "image/png", size |-> 5242881],
     [name |-> <<"d", ".", "p", "d", "f">>,
      type |-> "application/pdf", size |-> 1024] >>

FileIds == 1..Len(Files)

\* values removeBackground may reject with
Thrown ==
  { [isError |-> TRUE,  name |-> "AbortError", message |-> "aborted"],
    [isError |-> TRUE,  name |-> "Error",      message |-> "boom"],
    [isError |-> FALSE, name |-> "",           message |-> "boom"] }

\* (current, total) pairs a progress callback may deliver
ProgressReports == { <<0, 4>>, <<1, 4>>, <<5, 4>> }

\* null of the nullable state
NoName == << >>
NoSize == -1
NoError == << >>
NoOffer == [href |-> 0, download |-> << >>]

ZodErrorMsg == << "Please upload a valid PNG, JPG, or WEBP image (max 5MB)." >>
ReadErrorMsg == << "Failed to read the file. Please try again." >>
GenericFailMsg == << "Failed to remove background. Please try again." >>

(* ---------------------------------------------------------------------- *)
(* Pure functions                                                          *)
(* ---------------------------------------------------------------------- *)

\* the schema without its size limit
imageFileSchema_NoSizeLimit(f) ==
  f.type \in ALLOWED_FILE_TYPES

\* the schema with an exclusive size limit
imageFileSchema_ExclusiveMax(f) ==
  /\ f.type \in ALLOWED_FILE_TYPES
  /\ f.size < MAX_FILE_SIZE

\* imageFileSchema.parse succeeds
imageFileSchema(f) ==
  /\ f.type \in ALLOWED_FILE_TYPES
  /\ f.size <= MAX_FILE_SIZE

RECURSIVE GCD(_, _)
GCD(a, b) == IF b = 0 THEN a ELSE GCD(b, a % b)

\* (current / total) * 100 as a reduced fraction <<numerator, denominator>>
Pct(current, total) ==
  LET n == current * 100
      g == GCD(n, total)
  IN  IF g = 0 THEN <<0, 0>> ELSE <<n \div g, total \div g>>

\* Math.max(4, progress), the width of the progress bar in percent, as a
\* fraction; a zero denominator stands for NaN (0/0) or Infinity, which
\* Math.max hands on
BarWidth(p) ==
  IF p[2] = 0 THEN p
  ELSE IF p[1] < 4 * p[2] THEN <<4, 1>>
  ELSE p

\* fileName.replace(/\.[^/.]+$/, ""): drop the last "." and what follows
\* it when at least one character follows and none of them is "/" or "."
StripExt(s) ==
  LET dots == { i \in 1..Len(s) :
                  /\ s[i] = "."
                  /\ i < Len(s)
                  /\ \A k \in (i + 1)..Len(s) : s[k] \notin {"/", "."} }
  IN  IF dots = {} THEN s
      ELSE SubSeq(s, 1, (CHOOSE i \in dots : TRUE) - 1)

BaseName(name) ==
  IF name # NoName THEN StripExt(name)
  ELSE <<"background-removed">>

\* the message set in the catch block of processImage
FailureMessage(t) ==
  IF t.isError THEN << "Failed to remove background: ", t.message >>
  ELSE GenericFailMsg

\* the catch block without the AbortError test
CatchError_NoAbortTest(err, t) ==
  FailureMessage(t)

\* the catch block of processImage: the new value of error
CatchError(err, t) ==
  IF t.isError /\ t.name = "AbortError" THEN err
  ELSE FailureMessage(t)

\* the previous object URL is dropped without being revoked
RevokeProcessedUrl_Skip(rv, ref) ==
  rv

\* if (processedUrlRef.current) URL.revokeObjectURL(processedUrlRef.current):
\* the revoke calls recorded per object URL
RevokeProcessedUrl(rv, ref) ==
  IF ref # 0 THEN [rv EXCEPT ![ref] = @ + 1] ELSE rv

(* ---------------------------------------------------------------------- *)
(* State                                                                   *)
(* ---------------------------------------------------------------------- *)

VARIABLES
  image,              \* content (file id) of the data URL shown, 0 = null
  processedImage,     \* object URL shown, 0 = null
  fileName,
  fileSize,
  error,
  isProcessing,
  progress,
  abortControllerRef, \* job whose AbortController is held, 0 = null
  processedUrlRef,    \* object URL held, 0 = null
  mounted,
  subs,               \* accepted submissions: submission id -> file id
  reads,              \* submissions whose FileReader read is pending
  jobs,               \* submissions whose removeBackground call is in flight
  aborted,            \* jobs in flight on whose controller abort() was called
  urlOwner,           \* created object URLs: url id -> job that produced it
  revokes,            \* url id -> number of revokeObjectURL calls
  superseded,         \* jobs in flight when a later file was accepted
  lastEvent           \* the task that produced this state

vars == << image, processedImage, fileName, fileSize, error, isProcessing,
           progress, abortControllerRef, processedUrlRef, mounted, subs,
           reads, jobs, aborted, urlOwner, revokes, superseded, lastEvent >>

\* the pipeline state a job or handler can alter
uiState == << image, processedImage, fileName, fileSize, error,
              isProcessing, progress >>

LiveUrls == { u \in 1..Len(urlOwner) : revokes[u] = 0 }

\* the file an object URL's blob was computed from
UrlFile(u) == subs[urlOwner[u]]

Init ==
  /\ image = 0
  /\ processedImage = 0
  /\ fileName = NoName
  /\ fileSize = NoSize
  /\ error = NoError
  /\ isProcessing = FALSE
  /\ progress = <<0, 1>>
  /\ abortControllerRef = 0
  /\ processedUrlRef = 0
  /\ mounted = TRUE
  /\ subs = << >>
  /\ reads = {}
  /\ jobs = {}
  /\ aborted = {}
  /\ urlOwner = << >>
  /\ revokes = << >>
  /\ superseded = {}
  /\ lastEvent = [op |-> "init"]

(* ---------------------------------------------------------------------- *)
(* Operations                                                              *)
(* ---------------------------------------------------------------------- *)

\* validateAndProcessFile(file), the schema accepts
SubmitAccepted(f) ==
  /\ mounted
  /\ imageFileSchema(Files[f])
  /\ Len(subs) < MaxSubmits
  /\ fileName' = Files[f].name
  /\ fileSize' = Files[f].size
  /\ error' = NoError
  /\ processedImage' = 0
  /\ subs' = Append(subs, f)
  /\ reads' = reads \cup {Len(subs) + 1}
  /\ superseded' = superseded \cup jobs
  /\ lastEvent' = [op |-> "submit", file |-> f, accepted |-> TRUE,
                   sub |-> Len(subs) + 1]
  /\ UNCHANGED << image, isProcessing, progress, abortControllerRef,
                  processedUrlRef, mounted, jobs, aborted, urlOwner,
                  revokes >>

\* the rejected path with the session setters placed before the parse
SubmitRejected_ResetsFirst(f) ==
  /\ mounted
  /\ ~imageFileSchema(Files[f])
  /\ fileName' = Files[f].name
  /\ fileSize' = Files[f].size
  /\ processedImage' = 0
  /\ error' = ZodErrorMsg
  /\ lastEvent' = [op |-> "submit", file |-> f, accepted |-> FALSE,
                   sub |-> 0]
  /\ UNCHANGED << image, isProcessing, progress, abortControllerRef,
                  processedUrlRef, mounted, subs, reads, jobs, aborted,
                  urlOwner, revokes, superseded >>

\* validateAndProcessFile(file), the schema throws a ZodError
SubmitRejected(f) ==
  /\ mounted
  /\ ~imageFileSchema(Files[f])
  /\ error' = ZodErrorMsg
  /\ lastEvent' = [op |-> "submit", file |-> f, accepted |-> FALSE,
                   sub |-> 0]
  /\ UNCHANGED << image, processedImage, fileName, fileSize, isProcessing,
                  progress, abortControllerRef, processedUrlRef, mounted,
                  subs, reads, jobs, aborted, urlOwner, revokes, superseded >>

validateAndProcessFile(f) == SubmitAccepted(f) \/ SubmitRejected(f)

\* reader.onload: setImage, then processImage up to its await
readerOnload(s) ==
  /\ s \in reads
  /\ reads' = reads \ {s}
  /\ image' = subs[s]
  /\ aborted' = IF abortControllerRef # 0
                THEN aborted \cup {abortControllerRef} ELSE aborted
  /\ abortControllerRef' = s
  /\ isProcessing' = TRUE
  /\ progress' = <<0, 1>>
  /\ error' = NoError
  /\ jobs' = jobs \cup {s}
  /\ lastEvent' = [op |-> "onload", sub |-> s]
  /\ UNCHANGED << processedImage, fileName, fileSize, processedUrlRef,
                  mounted, subs, urlOwner, revokes, superseded >>

\* reader.onerror going on to processImage as reader.onload does
readerOnerror_StartsJob(s) ==
  /\ s \in reads
  /\ reads' = reads \ {s}
  /\ error' = ReadErrorMsg
  /\ aborted' = IF abortControllerRef # 0
                THEN aborted \cup {abortControllerRef} ELSE aborted
  /\ abortControllerRef' = s
  /\ isProcessing' = TRUE
  /\ progress' = <<0, 1>>
  /\ jobs' = jobs \cup {s}
  /\ lastEvent' = [op |-> "onerror", sub |-> s]
  /\ UNCHANGED << image, processedImage, fileName, fileSize,
                  processedUrlRef, mounted, subs, urlOwner, revokes,
                  superseded >>

\* reader.onerror
readerOnerror(s) ==
  /\ s \in reads
  /\ reads' = reads \ {s}
  /\ error' = ReadErrorMsg
  /\ lastEvent' = [op |-> "onerror", sub |-> s]
  /\ UNCHANGED << image, processedImage, fileName, fileSize, isProcessing,
                  progress, abortControllerRef, processedUrlRef, mounted,
                  subs, jobs, aborted, urlOwner, revokes, superseded >>

\* the progress callback handed to removeBackground
progressCallback(j, r) ==
  /\ j \in jobs
  /\ progress' = Pct(r[1], r[2])
  /\ lastEvent' = [op |-> "progress", job |-> j, report |-> r]
  /\ UNCHANGED << image, processedImage, fileName, fileSize, error,
                  isProcessing, abortControllerRef, processedUrlRef,
                  mounted, subs, reads, jobs, aborted, urlOwner, revokes,
                  superseded >>

\* the resolved path with the revoke block placed after the assignment of
\* the new URL to processedUrlRef: the new URL is the one revoked
processImageResolved_RevokeAfterAssign(j) ==
  /\ j \in jobs
  /\ jobs' = jobs \ {j}
  /\ revokes' = RevokeProcessedUrl(Append(revokes, 0), Len(urlOwner) + 1)
  /\ urlOwner' = Append(urlOwner, j)
  /\ processedUrlRef' = 0
  /\ processedImage' = Len(urlOwner) + 1
  /\ isProcessing' = FALSE
  /\ progress' = <<0, 1>>
  /\ abortControllerRef' = 0
  /\ aborted' = aborted \ {j}
  /\ lastEvent' = [op |-> "resolved", job |-> j]
  /\ UNCHANGED << image, fileName, fileSize, error, mounted, subs, reads,
                  superseded >>

\* the resolved path without setIsProcessing(false)
processImageResolved_KeepsRunning(j) ==
  /\ j \in jobs
  /\ jobs' = jobs \ {j}
  /\ revokes' = Append(RevokeProcessedUrl(revokes, processedUrlRef), 0)
  /\ urlOwner' = Append(urlOwner, j)
  /\ processedUrlRef' = Len(urlOwner) + 1
  /\ processedImage' = Len(urlOwner) + 1
  /\ progress' = <<0, 1>>
  /\ abortControllerRef' = 0
  /\ aborted' = aborted \ {j}
  /\ lastEvent' = [op |-> "resolved", job |-> j]
  /\ UNCHANGED << image, fileName, fileSize, error, isProcessing, mounted,
                  subs, reads, superseded >>

\* processImage after removeBackground resolves, with its finally block
processImageResolved(j) ==
  /\ j \in jobs
  /\ jobs' = jobs \ {j}
  /\ revokes' = Append(RevokeProcessedUrl(revokes, processedUrlRef), 0)
  /\ urlOwner' = Append(urlOwner, j)
  /\ processedUrlRef' = Len(urlOwner) + 1
  /\ processedImage' = Len(urlOwner) + 1
  /\ isProcessing' = FALSE
  /\ progress' = <<0, 1>>
  /\ abortControllerRef' = 0
  /\ aborted' = aborted \ {j}
  /\ lastEvent' = [op |-> "resolved", job |-> j]
  /\ UNCHANGED << image, fileName, fileSize, error, mounted, subs, reads,
                  superseded >>

\* the rejected path with the resets of the finally block left in the try
\* block, where a throw skips them
processImageRejected_NoFinally(j, t) ==
  /\ j \in jobs
  /\ jobs' = jobs \ {j}
  /\ error' = CatchError(error, t)
  /\ aborted' = aborted \ {j}
  /\ lastEvent' = [op |-> "rejected", job |-> j, thrown |-> t]
  /\ UNCHANGED << image, processedImage, fileName, fileSize, isProcessing,
                  progress, abortControllerRef, processedUrlRef, mounted,
                  subs, reads, urlOwner, revokes, superseded >>

\* the rejected path without setIsProcessing(false)
processImageRejected_KeepsRunning(j, t) ==
  /\ j \in jobs
  /\ jobs' = jobs \ {j}
  /\ error' = CatchError(error, t)
  /\ progress' = <<0, 1>>
  /\ abortControllerRef' = 0
  /\ aborted' = aborted \ {j}
  /\ lastEvent' = [op |-> "rejected", job |-> j, thrown |-> t]
  /\ UNCHANGED << image, processedImage, fileName, fileSize, isProcessing,
                  processedUrlRef, mounted, subs, reads, urlOwner, revokes,
                  superseded >>

\* processImage after removeBackground rejects with t: catch and finally
processImageRejected(j, t) ==
  /\ j \in jobs
  /\ jobs' = jobs \ {j}
  /\ error' = CatchError(error, t)
  /\ isProcessing' = FALSE
  /\ progress' = <<0, 1>>
  /\ abortControllerRef' = 0
  /\ aborted' = aborted \ {j}
  /\ lastEvent' = [op |-> "rejected", job |-> j, thrown |-> t]
  /\ UNCHANGED << image, processedImage, fileName, fileSize,
                  processedUrlRef, mounted, subs, reads, urlOwner, revokes,
                  superseded >>

\* clearImage without setError(null)
clearImage_KeepError ==
  /\ mounted
  /\ aborted' = IF abortControllerRef # 0
                THEN aborted \cup {abortControllerRef} ELSE aborted
  /\ revokes' = RevokeProcessedUrl(revokes, processedUrlRef)
  /\ processedUrlRef' = 0
  /\ image' = 0
  /\ processedImage' = 0
  /\ fileName' = NoName
  /\ fileSize' = NoSize
  /\ isProcessing' = FALSE
  /\ progress' = <<0, 1>>
  /\ lastEvent' = [op |-> "clear", revoked |-> processedUrlRef]
  /\ UNCHANGED << error, abortControllerRef, mounted, subs, reads, jobs,
                  urlOwner, superseded >>

\* clearImage without processedUrlRef.current = null after the revoke
clearImage_KeepRef ==
  /\ mounted
  /\ aborted' = IF abortControllerRef # 0
                THEN aborted \cup {abortControllerRef} ELSE aborted
  /\ revokes' = RevokeProcessedUrl(revokes, processedUrlRef)
  /\ image' = 0
  /\ processedImage' = 0
  /\ fileName' = NoName
  /\ fileSize' = NoSize
  /\ error' = NoError
  /\ isProcessing' = FALSE
  /\ progress' = <<0, 1>>
  /\ lastEvent' = [op |-> "clear", revoked |-> processedUrlRef]
  /\ UNCHANGED << abortControllerRef, processedUrlRef, mounted, subs, reads,
                  jobs, urlOwner, superseded >>

clearImage ==
  /\ mounted
  /\ aborted' = IF abortControllerRef # 0
                THEN aborted \cup {abortControllerRef} ELSE aborted
  /\ revokes' = RevokeProcessedUrl(revokes, processedUrlRef)
  /\ processedUrlRef' = 0
  /\ image' = 0
  /\ processedImage' = 0
  /\ fileName' = NoName
  /\ fileSize' = NoSize
  /\ error' = NoError
  /\ isProcessing' = FALSE
  /\ progress' = <<0, 1>>
  /\ lastEvent' = [op |-> "clear", revoked |-> processedUrlRef]
  /\ UNCHANGED << abortControllerRef, mounted, subs, reads, jobs, urlOwner,
                  superseded >>

\* the file handleDownload builds once past its guard
DownloadLink ==
  [href |-> processedImage,
   download |-> BaseName(fileName) \o <<".", "p", "n", "g">>]

\* handleDownload without its early return
handleDownload_NoGuard ==
  /\ mounted
  /\ lastEvent' = [op |-> "download", offered |-> DownloadLink]
  /\ UNCHANGED << image, processedImage, fileName, fileSize, error,
                  isProcessing, progress, abortControllerRef,
                  processedUrlRef, mounted, subs, reads, jobs, aborted,
                  urlOwner, revokes, superseded >>

handleDownload ==
  /\ mounted
  /\ lastEvent' =
       [op |-> "download",
        offered |-> IF processedImage = 0 THEN NoOffer ELSE DownloadLink]
  /\ UNCHANGED << image, processedImage, fileName, fileSize, error,
                  isProcessing, progress, abortControllerRef,
                  processedUrlRef, mounted, subs, reads, jobs, aborted,
                  urlOwner, revokes, superseded >>

\* the cleanup of the mount effect
unmount ==
  /\ mounted
  /\ mounted' = FALSE
  /\ revokes' = RevokeProcessedUrl(revokes, processedUrlRef)
  /\ processedUrlRef' = 0
  /\ lastEvent' = [op |-> "unmount", revoked |-> processedUrlRef]
  /\ UNCHANGED << image, processedImage, fileName, fileSize, error,
                  isProcessing, progress, abortControllerRef, subs, reads,
                  jobs, aborted, urlOwner, superseded >>

Next ==
  \/ \E f \in FileIds : validateAndProcessFile(f)
  \/ \E s \in reads : readerOnload(s)
  \/ \E s \in reads : readerOnerror(s)
  \/ \E j \in jobs, r \in ProgressReports : progressCallback(j, r)
  \/ \E j \in jobs : processImageResolved(j)
  \/ \E j \in jobs, t \in Thrown : processImageRejected(j, t)
  \/ clearImage
  \/ handleDownload
  \/ unmount

Spec == Init /\ [][Next]_vars


\* a pending FileReader read fires onload or onerror
ReadEnds(s) == readerOnload(s) \/ readerOnerror(s)

\* a removeBackground call in flight returns or throws
JobEnds(j) ==
  processImageResolved(j) \/ \E t \in Thrown : processImageRejected(j, t)

\* a callback that is due runs
Completion == \E s \in 1..MaxSubmits : ReadEnds(s) \/ JobEnds(s)

\* the events that write the running status, the error message, the reads
\* or the jobs: every event but the progress callback (which writes progress
\* alone) and handleDownload (which writes nothing)
FairNext ==
  \/ \E f \in FileIds : validateAndProcessFile(f)
  \/ \E s \in reads : readerOnload(s)
  \/ \E s \in reads : readerOnerror(s)
  \/ \E j \in jobs : processImageResolved(j)
  \/ \E j \in jobs, t \in Thrown : processImageRejected(j, t)
  \/ clearImage
  \/ unmount

\* while a read is pending or a removeBackground call is in flight, one of
\* them eventually ends: every read ends and every started call returns or
\* throws
FairSpec == Init /\ [][FairNext]_vars /\ WF_vars(Completion)

(* ---------------------------------------------------------------------- *)
(* Properties                                                              *)
(* ---------------------------------------------------------------------- *)

\* C1: once a valid file B is submitted while the job of an earlier file A
\* is in flight, no later event of A's job (progress, success, failure)
\* changes the pipeline state, and the processed image shown is never A's.
C1_SupersededJobIsInert ==
  [][ /\ ( /\ lastEvent'.op \in {"progress", "resolved", "rejected"}
           /\ lastEvent'.job \in superseded )
         => UNCHANGED uiState
      /\ processedImage' # 0 => urlOwner'[processedImage'] \notin superseded'
    ]_vars

\* C2: a submitted file whose type is not PNG, JPEG or WEBP or whose size
\* exceeds 5 MiB sets the InvalidFile message and starts neither a read nor
\* a job; no read or job ever belongs to such a file, and the running
\* status and progress are untouched by the submission.
C2_InvalidFileStartsNothing ==
  /\ [][ ( /\ lastEvent'.op = "submit"
           /\ \/ Files[lastEvent'.file].type
                   \notin {"image/png", "image/jpeg", "image/webp"}
              \/ Files[lastEvent'.file].size > 5242880 )
         => /\ error' = ZodErrorMsg
            /\ UNCHANGED << subs, reads, jobs, isProcessing, progress,
                            abortControllerRef >>
       ]_vars
  /\ [] ( \A s \in 1..Len(subs) :
            /\ Files[subs[s]].type
                 \in {"image/png", "image/jpeg", "image/webp"}
            /\ Files[subs[s]].size <= 5242880 )

\* C2 witness: the oversized PNG was rejected while a job of an earlier
\* file was in flight.
C2_Witness ==
  /\ lastEvent.op = "submit"
  /\ Files[lastEvent.file].type = "image/png"
  /\ Files[lastEvent.file].size > 5242880
  /\ error = ZodErrorMsg
  /\ jobs # {}

\* C3: at most one processing job is in flight whose result can still be
\* applied (every job in flight applies its result when it ends).
C3_AtMostOneJobInFlight == Cardinality(jobs) <= 1

\* C4: at most one result object URL is live (created and not revoked).
C4_AtMostOneLiveUrl == Cardinality(LiveUrls) <= 1

\* C4 witness: a second object URL was created and the first one is no
\* longer live.
C4_Witness ==
  /\ Len(urlOwner) >= 2
  /\ LiveUrls = {Len(urlOwner)}

\* C5: a processed image or a live object URL exists only together with the
\* source image it was computed from.
C5_ArtifactBelongsToCurrentImage ==
  /\ processedImage # 0
       => image # 0 /\ UrlFile(processedImage) = image
  /\ \A u \in LiveUrls : image # 0 /\ UrlFile(u) = image

\* C6: clearImage() with an artifact shown and no job in flight revokes the
\* object URL and leaves source image, processed image, file name and error
\* absent, progress 0 and the running status false.
C6_ClearAfterSuccess ==
  [][ ( /\ lastEvent'.op = "clear"
        /\ processedImage # 0
        /\ jobs = {} )
      => /\ revokes'[processedImage] = revokes[processedImage] + 1
         /\ LiveUrls' = {}
         /\ image' = 0
         /\ processedImage' = 0
         /\ fileName' = NoName
         /\ error' = NoError
         /\ progress' = <<0, 1>>
         /\ isProcessing' = FALSE
    ]_vars

\* C6 witness: a clear that revoked an object URL with no job in flight.
C6_Witness ==
  /\ lastEvent.op = "clear"
  /\ lastEvent.revoked # 0
  /\ jobs = {}
  /\ revokes[lastEvent.revoked] = 1

\* C7: handleDownload() with no processed image offers no file and changes
\* no state.
C7_DownloadWithoutArtifact ==
  [][ ( /\ lastEvent'.op = "download"
        /\ processedImage = 0 )
      => /\ lastEvent'.offered = NoOffer
         /\ UNCHANGED << uiState, abortControllerRef, processedUrlRef,
                         mounted, subs, reads, jobs, aborted, urlOwner,
                         revokes, superseded >>
    ]_vars

\* C7 witness: a download requested while a source image is shown and its
\* result is not there yet.
C7_Witness ==
  /\ lastEvent.op = "download"
  /\ processedImage = 0
  /\ image # 0
  /\ jobs # {}

\* C8: every file handleDownload() offers has the content computed from a
\* submitted file F and F's own name with its extension replaced by .png.
C8_DownloadNamedAfterItsSource ==
  ( /\ lastEvent.op = "download"
    /\ lastEvent.offered # NoOffer )
  => lastEvent.offered.download
       = StripExt(Files[UrlFile(lastEvent.offered.href)].name)
           \o <<".", "p", "n", "g">>

\* C9: a file is accepted (its read is started) iff its type is image/png,
\* image/jpeg or image/webp and its size is at most 5,242,880 bytes, and is
\* rejected with the InvalidFile message otherwise.
C9_ValidatorAcceptsIff ==
  [][ lastEvent'.op = "submit"
      => LET f == Files[lastEvent'.file]
             ok == /\ f.type \in {"image/png", "image/jpeg", "image/webp"}
                   /\ f.size <= 5242880
         IN  /\ ok <=> reads' = reads \cup {Len(subs) + 1}
             /\ ok <=> subs' = Append(subs, lastEvent'.file)
             /\ ~ok <=> (error' = ZodErrorMsg /\ reads' = reads)
    ]_vars

\* C9 witness: a file of exactly 5,242,880 bytes was accepted and its read
\* is pending.
C9_Witness ==
  /\ lastEvent.op = "submit"
  /\ Files[lastEvent.file].size = 5242880
  /\ lastEvent.sub \in reads
  /\ error = NoError

\* C10 as stated: a job ending by an abort error leaves the error message
\* unchanged and produces no artifact; ending by any other thrown value it
\* sets a processing-failure message carrying the thrown value's message.
C10_FailureCarriesMessage ==
  [][ lastEvent'.op = "rejected"
      => LET t == lastEvent'.thrown
         IN  IF t.name = "AbortError"
             THEN /\ error' = error
                  /\ UNCHANGED << processedImage, processedUrlRef, urlOwner >>
             ELSE error' = << "Failed to remove background: ", t.message >>
    ]_vars

\* C10 amended: a job ending by an abort error leaves the error message
\* unchanged and produces no artifact; ending by another Error instance it
\* sets "Failed to remove background: " followed by the error's message;
\* ending by a thrown value that is not an Error instance it sets the fixed
\* message "Failed to remove background. Please try again.".
C10_FailureMessageByKind ==
  [][ lastEvent'.op = "rejected"
      => LET t == lastEvent'.thrown
         IN  IF t.isError /\ t.name = "AbortError"
             THEN /\ error' = error
                  /\ UNCHANGED << processedImage, processedUrlRef, urlOwner >>
             ELSE IF t.isError
             THEN error' = << "Failed to remove background: ", t.message >>
             ELSE error'
                    = << "Failed to remove background. Please try again." >>
    ]_vars

\* C10 witness: a job ended by an abort error while a validation message
\* was shown, and the message is still shown.
C10_Witness ==
  /\ lastEvent.op = "rejected"
  /\ lastEvent.thrown.name = "AbortError"
  /\ error = ZodErrorMsg

\* C11: the processing job of an accepted file is started only by the
\* successful completion of that file's read, and a read is pending only
\* once per submission; a failed read sets the read-failure message, ends
\* the read and starts no job, so no job is ever started for it.
C11_JobOnlyAfterSuccessfulRead ==
  [][ /\ \A s \in jobs' \ jobs :
           /\ s \in reads
           /\ s \notin reads'
           /\ lastEvent' = [op |-> "onload", sub |-> s]
           /\ image' = subs[s]
      /\ \A s \in reads' \ reads :
           /\ s = Len(subs) + 1
           /\ Len(subs') = s
      /\ lastEvent'.op = "onerror"
           => /\ error' = ReadErrorMsg
              /\ lastEvent'.sub \in reads
              /\ lastEvent'.sub \notin reads'
              /\ lastEvent'.sub \notin jobs'
              /\ jobs' = jobs
              /\ UNCHANGED << isProcessing, abortControllerRef >>
    ]_vars

\* C11 witness: the read of the second submission failed while the job of
\* the first one is in flight; the failed submission has no job.
C11_Witness ==
  /\ lastEvent = [op |-> "onerror", sub |-> 2]
  /\ error = ReadErrorMsg
  /\ jobs = {1}

\* C12: every processing invocation, whether it ends in success, in a
\* processing failure or in cancellation, leaves progress at 0 and the
\* running status false in the state right after it ends.
C12_EndResetsProgressAndStatus ==
  [][ lastEvent'.op \in {"resolved", "rejected"}
      => /\ lastEvent'.job \in jobs
         /\ lastEvent'.job \notin jobs'
         /\ progress' = <<0, 1>>
         /\ isProcessing' = FALSE
    ]_vars

\* C12 witness: an invocation ended by an abort error; the progress it had
\* reported is gone and the running status is false.
C12_Witness ==
  /\ lastEvent.op = "rejected"
  /\ lastEvent.thrown.name = "AbortError"
  /\ error = NoError
  /\ progress = <<0, 1>>
  /\ ~isProcessing

\* C13: right after a job completes successfully exactly one object URL is
\* live, it is the one the processed image refers to, and it is a new
\* handle, different from every handle created before, with no revoke call
\* on it; and the processed image displayed by the mounted component never
\* refers to a revoked URL.
C13_FreshLiveUrlAfterSuccess ==
  /\ [][ lastEvent'.op = "resolved"
         => /\ LiveUrls' = {processedImage'}
            /\ processedImage' \notin 1..Len(urlOwner)
            /\ processedImage' \in 1..Len(urlOwner')
            /\ urlOwner'[processedImage'] = lastEvent'.job
            /\ revokes'[processedImage'] = 0
            /\ \A u \in 1..Len(urlOwner) : revokes'[u] >= 1
       ]_vars
  /\ [] ( (mounted /\ processedImage # 0) => processedImage \in LiveUrls )

\* C13 witness: a second job completed successfully; the handle of the
\* first result was released and the new one is shown.
C13_Witness ==
  /\ lastEvent.op = "resolved"
  /\ mounted
  /\ processedImage = 2
  /\ revokes = <<1, 0>>

\* C14: no result object URL leaks: when a job that was in flight at
\* clearImage() or at the teardown ends right after it, with no file
\* submitted in between and no read or job left, no object URL is live.
C14_NoLiveUrlAfterClearOrTeardown ==
  [][ ( /\ lastEvent.op \in {"clear", "unmount"}
        /\ lastEvent'.op \in {"resolved", "rejected"}
        /\ jobs' = {}
        /\ reads' = {} )
      => LiveUrls' = {}
    ]_vars

\* C15: whenever processImage starts or clearImage() runs, abort() has been
\* called on the controller of every processing invocation still in flight
\* at that moment.
C15_InFlightJobsAreSignalled ==
  /\ lastEvent.op = "onload" => (jobs \ {lastEvent.sub}) \subseteq aborted
  /\ lastEvent.op = "clear" => jobs \subseteq aborted

\* C16: whenever the processed image is absent no result object URL is
\* live: an accepted submission or clearImage() that drops the processed
\* image has revoked the URL behind it by the end of that step.
C16_NoLiveUrlWithoutProcessedImage ==
  processedImage = 0 => LiveUrls = {}

\* C17: URL.revokeObjectURL is called at most once for each created object
\* URL, across job completions, clearImage() and teardown in any order.
C17_NoDoubleRevoke ==
  \A u \in 1..Len(urlOwner) : revokes[u] <= 1

\* C17 witness: clearImage() revoked the object URL, and the teardown that
\* followed found nothing left to revoke.
C17_Witness ==
  /\ lastEvent = [op |-> "unmount", revoked |-> 0]
  /\ \E u \in 1..Len(urlOwner) : revokes[u] = 1
  /\ processedImage = 0

\* C18: with no file read pending, the source image displayed, the file
\* name and the file size all belong to the most recently accepted file.
C18_SessionReplacedWholesale ==
  ( /\ mounted
    /\ reads = {}
    /\ image # 0 )
  => /\ image = subs[Len(subs)]
     /\ fileName = Files[image].name
     /\ fileSize = Files[image].size

\* nothing is running: no job in flight, no read pending, status false
Idle == jobs = {} /\ reads = {} /\ ~isProcessing

\* C19: given that every read ends and every started call returns or
\* throws, a state showing an error message leads to an idle state (so the
\* message never stays together with a running status); an idle state stays
\* idle until the next submission; a valid file submitted in an idle state
\* is accepted, and its read, once complete, starts a job.
C19_FailureLeadsToIdleAndResubmittable ==
  /\ (error # NoError) ~> Idle
  /\ [][ Idle => (jobs' = {} /\ ~isProcessing') ]_vars
  /\ [][ ( /\ Idle
           /\ lastEvent'.op = "submit"
           /\ Files[lastEvent'.file].type
                \in {"image/png", "image/jpeg", "image/webp"}
           /\ Files[lastEvent'.file].size <= 5242880 )
         => /\ reads' = {Len(subs) + 1}
            /\ error' = NoError ]_vars
  /\ [][ lastEvent'.op = "onload"
         => /\ lastEvent'.sub \in jobs'
            /\ isProcessing' ]_vars

\* C19 witness: a processing failure is shown, nothing is running, and a
\* further file can still be submitted.
C19_Witness ==
  /\ lastEvent.op = "rejected"
  /\ error = << "Failed to remove background: ", "boom" >>
  /\ Idle
  /\ mounted
  /\ Len(subs) < MaxSubmits

\* C20: whenever the progress indicator is shown (running status true) the
\* displayed percent value, the width of the bar, lies between 4 and 100
\* inclusive, whatever (current, total) the capability reported.
C20_DisplayedPercentWithin4And100 ==
  isProcessing
    => LET w == BarWidth(progress)
       IN  /\ w[2] > 0
           /\ 4 * w[2] <= w[1]
           /\ w[1] <= 100 * w[2]

\* C21: the in-progress indicator is never stale: whenever the running
\* status is true, at least one invocation of the background-removal
\* capability is in flight.
C21_RunningImpliesJobInFlight ==
  isProcessing => jobs # {}

\* C21 witness: the first job has ended and reset the status, the second
\* job then started: the status is true again with that job in flight.
C21_Witness ==
  /\ lastEvent = [op |-> "onload", sub |-> 2]
  /\ isProcessing
  /\ jobs = {2}
  /\ Len(urlOwner) = 1

\* C22: a rejected submission changes nothing but the error message: source
\* image, processed image, file name, file size, running status, progress,
\* the cancellation controller and the object URLs are unchanged, and a job
\* in flight is neither cancelled nor restarted.
C22_RejectedSubmissionFrame ==
  [][ ( /\ lastEvent'.op = "submit"
        /\ \/ Files[lastEvent'.file].type
                \notin {"image/png", "image/jpeg", "image/webp"}
           \/ Files[lastEvent'.file].size > 5242880 )
      => UNCHANGED << image, processedImage, fileName, fileSize,
                      isProcessing, progress, abortControllerRef,
                      processedUrlRef, urlOwner, revokes, jobs, aborted,
                      reads, subs, mounted >>
    ]_vars

\* C22 witness: the PDF was rejected while a job was in flight; the job is
\* still in flight with no abort() on its controller, the running status
\* and the file name of the accepted file are still there.
C22_Witness ==
  /\ lastEvent.op = "submit"
  /\ Files[lastEvent.file].type = "application/pdf"
  /\ error = ZodErrorMsg
  /\ jobs # {}
  /\ jobs \cap aborted = {}
  /\ isProcessing
  /\ fileName # NoName

=============================================================================
